---- MODULE Spec2Model ----
(***************************************************************************)
(* A model of the two mechanisms of the TVLINK streamlink library:         *)
(*   - StreamlinkPlugins (libs/streamlink/session/plugins.py): the plugin  *)
(*     registry, its batch loader and URL resolution;                      *)
(*   - HTTPStream (libs/streamlink/stream/http.py): open/close of a        *)
(*     stream and the readahead buffer it wraps the response in.           *)
(***************************************************************************)
EXTENDS Integers, Sequences, FiniteSets, TLC

VARIABLES
    plugins,    \* StreamlinkPlugins._plugins: a dict, kept as its items in insertion order
    prev,       \* history: _plugins as it was when the last call began
    ret,        \* what the last call on the registry was given and returned (or raised)
    dir,        \* a plugin directory: its module files, in the order iter_modules yields them
    call,       \* a match_url call running in another thread: its position and locals
    second,     \* a second dict of plugins: the _plugins of a second registry, or the
                \* dict a get_loaded call returned (alias: it is the registry's own dict)
    load,       \* a load_path call under way: its place in the scan and its local dicts
    http,       \* an HTTPStream: buffered, res, fd, and where its close() is
    src,        \* the response body behind self.res, and the chunk adapter's carry
    buf,        \* the readahead buffer self.fd: queue, flags and its fill task
    rd,         \* the consumer: the bytes it has read and how its last read ended
    orphans     \* fill tasks of earlier open() calls that are still running

streamVars == <<http, src, buf, rd, orphans>>
vars == <<plugins, prev, ret, dir, call, second, load, streamVars>>

----------------------------------------------------------------------------
(* Values *)

\* plugin names: the three names _load_from_path treats apart, and the others
ReservedNames == {"hls", "dash", "http"}
SpecificNames == {"siteA", "siteB"}
AllNames == SpecificNames \cup ReservedNames
\* the names the registry's callers use
Names == {"siteA", "hls", "http"}

URLs == {"u1", "u2"}

\* A compiled pattern is modelled by the set of URLs it matches.
PatternMatch(pattern, url) == url \in pattern

\* Plugin classes, told apart by their matchers (Plugin.matchers is None, or a list).
PNone == [matchers |-> <<>>]
PSite == [matchers |-> <<{"u1"}>>]
PWide == [matchers |-> <<{"u2"}, {"u1", "u2"}>>]
PluginClasses == {PNone, PSite, PWide}

----------------------------------------------------------------------------
(* The dict self._plugins *)

DictKeys(d) == {d[i].name : i \in 1..Len(d)}
DictIndex(d, key) == CHOOSE i \in 1..Len(d) : d[i].name = key

\* d[key]
getitem(d, key) == d[DictIndex(d, key)].plugin

\* (mutant of setitem: the first definition under a name is kept)
setitem_first_wins(d, key, value) ==
    IF key \in DictKeys(d) THEN d
    ELSE Append(d, [name |-> key, plugin |-> value])

\* mutant of d[key] = value: a key that is stored again moves to the end
setitem_move_to_end(d, key, value) ==
    Append(SelectSeq(d, LAMBDA e : e.name # key), [name |-> key, plugin |-> value])

\* d[key] = value: an existing key keeps its place, a new key goes last
setitem(d, key, value) ==
    IF key \in DictKeys(d)
    THEN [d EXCEPT ![DictIndex(d, key)].plugin = value]
    ELSE Append(d, [name |-> key, plugin |-> value])

\* d.pop(key, None) (mutant: the last item is moved into the place of the one
\* removed)
delitem_swap_last(d, key) ==
    IF key \notin DictKeys(d) THEN d
    ELSE LET i == CHOOSE j \in 1..Len(d) : d[j].name = key
         IN  IF i = Len(d) THEN SubSeq(d, 1, Len(d) - 1)
             ELSE SubSeq([d EXCEPT ![i] = d[Len(d)]], 1, Len(d) - 1)
delitem(d, key) == SelectSeq(d, LAMBDA e : e.name # key)

\* d.update(other): other's items are stored one by one, in other's order
RECURSIVE update(_, _)
update(d, other) ==
    IF other = <<>> THEN d
    ELSE update(setitem(d, Head(other).name, Head(other).plugin), Tail(other))

----------------------------------------------------------------------------
(* URL resolution *)

None == [found |-> FALSE]
Found(name, plugin) == [found |-> TRUE, name |-> name, plugin |-> plugin]

\* iter_matchers: the (name, plugin.matchers) of the plugins that have matchers
iter_matchers(d) == SelectSeq(d, LAMBDA e : e.plugin.matchers # <<>>)

\* for matcher in matchers: if matcher.pattern.match(url) is not None
RECURSIVE matchers_match(_, _)
matchers_match(matchers, url) ==
    IF matchers = <<>> THEN FALSE
    ELSE IF PatternMatch(Head(matchers), url) THEN TRUE
    ELSE matchers_match(Tail(matchers), url)

\* (mutant of match_loop: the loop does not stop at the first match)
RECURSIVE match_loop_last(_, _, _)
match_loop_last(d, it, url) ==
    IF it = <<>> THEN None
    ELSE LET rest == match_loop_last(d, Tail(it), url)
         IN  IF rest # None THEN rest
             ELSE IF matchers_match(Head(it).plugin.matchers, url)
                  THEN Found(Head(it).name, getitem(d, Head(it).name))
                  ELSE None

RECURSIVE match_loop(_, _, _)
match_loop(d, it, url) ==
    IF it = <<>> THEN None
    ELSE IF matchers_match(Head(it).plugin.matchers, url)
         THEN Found(Head(it).name, getitem(d, Head(it).name))
         ELSE match_loop(d, Tail(it), url)

match_url(d, url) == match_loop(d, iter_matchers(d), url)

----------------------------------------------------------------------------
(* Loading a directory of plugin modules *)

\* What executing one module file gives: exec_module raises ImportError, or raises
\* something else (a SyntaxError, an error in the module's own code); the module
\* has no __plugin__; its __plugin__ is not a class, is a class that is no
\* Plugin, or is a Plugin class.
FailureKinds == {"ImportError", "Error", "NoExport", "NotClass", "NotPlugin"}
ModuleOutcomes ==
    [kind : FailureKinds, plugin : {PNone}] \cup [kind : {"Plugin"}, plugin : PluginClasses]

\* _load_plugin_from_finder: (mod, plugin), None, or an exception that is not caught
load_plugin_from_finder(mod) ==
    CASE mod.kind = "ImportError" -> [kind |-> "none", plugin |-> PNone]
      [] mod.kind = "Error"       -> [kind |-> "raise", plugin |-> PNone]
      [] mod.kind = "NoExport"    -> [kind |-> "none", plugin |-> PNone]
      [] mod.kind = "NotClass"    -> [kind |-> "raise", plugin |-> PNone]
      [] mod.kind = "NotPlugin"   -> [kind |-> "none", plugin |-> PNone]
      [] mod.kind = "Plugin"      -> [kind |-> "ok", plugin |-> mod.plugin]

\* the loop of _load_from_path over pkgutil.iter_modules
RECURSIVE scan(_, _)
scan(mods, acc) ==
    IF mods = <<>> THEN acc
    ELSE LET name == Head(mods).name
             lookup == load_plugin_from_finder(Head(mods).mod)
         IN  IF lookup.kind = "raise" THEN [acc EXCEPT !.raised = TRUE]
             ELSE IF lookup.kind = "none" THEN scan(Tail(mods), acc)
             ELSE IF name = "dash"
                  THEN scan(Tail(mods), [acc EXCEPT !.tDash = setitem(@, name, lookup.plugin)])
             ELSE IF name = "hls"
                  THEN scan(Tail(mods), [acc EXCEPT !.tHls = setitem(@, name, lookup.plugin)])
             ELSE IF name = "http"
                  THEN scan(Tail(mods), [acc EXCEPT !.tHttp = setitem(@, name, lookup.plugin)])
             ELSE scan(Tail(mods), [acc EXCEPT !.plugins = setitem(@, name, lookup.plugin)])

\* (mutant of _load_from_path: every module is stored in discovery order)
RECURSIVE scan_discovery(_, _)
scan_discovery(mods, acc) ==
    IF mods = <<>> THEN acc
    ELSE LET lookup == load_plugin_from_finder(Head(mods).mod)
         IN  IF lookup.kind = "raise" THEN [acc EXCEPT !.raised = TRUE]
             ELSE IF lookup.kind = "none" THEN scan_discovery(Tail(mods), acc)
             ELSE scan_discovery(Tail(mods),
                     [acc EXCEPT !.plugins = setitem(@, Head(mods).name, lookup.plugin)])

load_from_path_discovery(mods) ==
    LET acc == scan_discovery(mods, [plugins |-> <<>>, raised |-> FALSE])
    IN  [raised |-> acc.raised, plugins |-> IF acc.raised THEN <<>> ELSE acc.plugins]

\* _load_from_path: the dict it returns, or raised
load_from_path(mods) ==
    LET acc == scan(mods, [plugins |-> <<>>, tDash |-> <<>>, tHls |-> <<>>,
                           tHttp |-> <<>>, raised |-> FALSE])
        p1 == IF acc.tHls # <<>> THEN update(acc.plugins, acc.tHls) ELSE acc.plugins
        p2 == IF acc.tDash # <<>> THEN update(p1, acc.tDash) ELSE p1
        p3 == IF acc.tHttp # <<>> THEN update(p2, acc.tHttp) ELSE p2
    IN  [raised |-> acc.raised, plugins |-> IF acc.raised THEN <<>> ELSE p3]

----------------------------------------------------------------------------------------------------------------------------------------
(* Inputs *)

\* the sequences of different elements of S
RECURSIVE DistinctSeqs(_)
DistinctSeqs(S) ==
    {<<>>} \cup UNION {{<<x>> \o t : t \in DistinctSeqs(S \ {x})} : x \in S}

\* pkgutil.iter_modules yields each module name of the directory once
Batches ==
    UNION {{[i \in 1..Len(ns) |-> [name |-> ns[i], mod |-> f[i]]] :
                f \in [1..Len(ns) -> ModuleOutcomes]} : ns \in DistinctSeqs(Names)}

\* what _load_from_path gives on them
LoadResults == {load_from_path(mods) : mods \in Batches}

----------------------------------------------------------------------------------------------------------------------------------------
(* The registry's operations *)

Ret(op, arg, raised, value) == [op |-> op, arg |-> arg, raised |-> raised, value |-> value]

\* no response, no buffer, nothing read
NoSource == [state |-> "none", produced |-> 0, carry |-> <<>>]
NoBuffer == [state |-> "none", queue |-> <<>>, fill |-> "none", held |-> <<>>,
             error |-> FALSE, exhausted |-> FALSE, stop |-> FALSE, left |-> "none"]
NoReads == [got |-> <<>>, last |-> "none", reads |-> 0, timedOut |-> FALSE,
            pending |-> FALSE]
\* no HTTPStream has been constructed
NoStream == [pc |-> "new", buffered |-> TRUE, res |-> "none", fd |-> "none", opens |-> 0,
             caught |-> FALSE, raised |-> FALSE]

\* no load_path call is under way
NoLoad == [pc |-> "idle", pos |-> 1, plugins |-> <<>>, tDash |-> <<>>, tHls |-> <<>>,
           tHttp |-> <<>>, before |-> <<>>]

\* no second dict
NoDict == [alias |-> FALSE, items |-> <<>>, at |-> <<>>, touched |-> FALSE]

\* no match_url call is running
Idle == [pc |-> "idle", url |-> "", pos |-> 0, dead |-> 0, used |-> 0, len |-> 0,
         name |-> "", changes |-> 0, seen |-> {}, raised |-> "", value |-> None]

\* StreamlinkPlugins(builtin=False)
Init ==
    /\ plugins = <<>>
    /\ prev = <<>>
    /\ ret = Ret("init", <<>>, FALSE, <<>>)
    /\ dir = <<>>
    /\ call = Idle
    /\ second = NoDict
    /\ load = NoLoad
    /\ http = NoStream
    /\ src = NoSource
    /\ buf = NoBuffer
    /\ rd = NoReads
    /\ orphans = 0

\* __setitem__
SetItem(key, value) ==
    /\ plugins' = setitem(plugins, key, value)
    /\ prev' = plugins
    /\ ret' = Ret("setitem", <<key, value>>, FALSE, <<>>)
    /\ UNCHANGED <<dir, call, second, load, streamVars>>

\* __delitem__
DelItem(key) ==
    /\ plugins' = delitem(plugins, key)
    /\ prev' = plugins
    /\ ret' = Ret("delitem", key, FALSE, <<>>)
    /\ UNCHANGED <<dir, call, second, load, streamVars>>

\* clear
Clear ==
    /\ plugins' = <<>>
    /\ prev' = plugins
    /\ ret' = Ret("clear", <<>>, FALSE, <<>>)
    /\ UNCHANGED <<dir, call, second, load, streamVars>>

\* load_path, on what _load_from_path gave for the path
load_path(loaded) ==
    /\ prev' = plugins
    /\ IF loaded.raised
       THEN /\ plugins' = plugins
            /\ ret' = Ret("load_path", <<>>, TRUE, <<>>)
       ELSE /\ plugins' = update(plugins, loaded.plugins)
            /\ ret' = Ret("load_path", loaded.plugins, FALSE, loaded.plugins # <<>>)

LoadPath(loaded) ==
    /\ load_path(loaded)
    /\ UNCHANGED <<dir, call, second, load, streamVars>>

\* match_url (mutant: the plugin that matched is moved to the front of the
\* dict, as a cache of the last match would do)
MatchUrl_move_to_front(url) ==
    /\ plugins' = IF match_url(plugins, url) = None THEN plugins
                  ELSE <<[name |-> match_url(plugins, url).name,
                          plugin |-> match_url(plugins, url).plugin]>>
                       \o delitem(plugins, match_url(plugins, url).name)
    /\ prev' = plugins
    /\ ret' = Ret("match_url", url, FALSE, match_url(plugins, url))
    /\ UNCHANGED <<dir, call, second, load, streamVars>>

\* match_url
MatchUrl(url) ==
    /\ plugins' = plugins
    /\ prev' = plugins
    /\ ret' = Ret("match_url", url, FALSE, match_url(plugins, url))
    /\ UNCHANGED <<dir, call, second, load, streamVars>>

Next ==
    \/ \E key \in Names, value \in PluginClasses : SetItem(key, value)
    \/ \E key \in Names : DelItem(key)
    \/ Clear
    \/ \E loaded \in LoadResults : LoadPath(loaded)
    \/ \E url \in URLs : MatchUrl(url)

Spec == Init /\ [][Next]_vars

----------------------------------------------------------------------------
(* Loading one directory into a new registry: the directory is filled module
   by module, with at most one module that fails, then load_path is called on
   it and URLs are resolved. *)

Failing(mods) == {i \in 1..Len(mods) : mods[i].mod.kind # "Plugin"}

AddModule(name, mod) ==
    /\ ret.op = "init"
    /\ \A i \in 1..Len(dir) : dir[i].name # name
    /\ mod.kind # "Plugin" => Failing(dir) = {}
    /\ dir' = Append(dir, [name |-> name, mod |-> mod])
    /\ UNCHANGED <<plugins, prev, ret, call, second, load, streamVars>>

ScanLoadPath ==
    /\ ret.op = "init"
    /\ load_path(load_from_path(dir))
    /\ UNCHANGED <<dir, call, second, load, streamVars>>

ScanMatchUrl(url) ==
    /\ ret.op # "init"
    /\ MatchUrl(url)

ScanNext ==
    \/ \E name \in AllNames, mod \in ModuleOutcomes : AddModule(name, mod)
    \/ ScanLoadPath
    \/ \E url \in URLs : ScanMatchUrl(url)

ScanSpec == Init /\ [][ScanNext]_vars

----------------------------------------------------------------------------
(* load_path followed statement by statement: the directory is filled, then
   handlers are registered, then one load_path call scans the directory module
   by module into the local dicts of _load_from_path and hands the result to
   update; URLs are resolved on the registry at every point of the call. *)

LoadNames == {"siteA", "hls", "http"}
LoadKeys == {"siteA", "http"}
LoadClasses == {PNone, PSite}
LoadOutcomes ==
    {mod \in ModuleOutcomes : mod.kind \in {"ImportError", "Error", "NotClass"}
                                 \/ mod.plugin \in LoadClasses}

\* handlers registered before the load_path call
LoadSetItem(key, value) ==
    /\ load.pc = "idle"
    /\ SetItem(key, value)

\* load_path is entered: _load_from_path starts with empty local dicts
LoadBegin ==
    /\ load.pc = "idle"
    /\ ret.op # "init"
    /\ load' = [NoLoad EXCEPT !.pc = "scan", !.before = plugins]
    /\ UNCHANGED <<plugins, prev, ret, dir, call, second, streamVars>>

\* (mutant of the loop body: a module's handler is stored in the registry's own dict)
LoadScanModule_into_registry ==
    /\ load.pc = "scan"
    /\ load.pos <= Len(dir)
    /\ LET name == dir[load.pos].name
           lookup == load_plugin_from_finder(dir[load.pos].mod)
       IN  IF lookup.kind = "raise"
           THEN /\ load' = [load EXCEPT !.pc = "done"]
                /\ ret' = Ret("load_path", <<>>, TRUE, <<>>)
                /\ UNCHANGED <<plugins, prev>>
           ELSE /\ load' = [load EXCEPT !.pos = @ + 1]
                /\ plugins' = IF lookup.kind = "none" THEN plugins
                              ELSE setitem(plugins, name, lookup.plugin)
                /\ UNCHANGED <<prev, ret>>
    /\ UNCHANGED <<dir, call, second, streamVars>>

\* one turn of the loop of _load_from_path; an exception leaves load_path
LoadScanModule ==
    /\ load.pc = "scan"
    /\ load.pos <= Len(dir)
    /\ LET name == dir[load.pos].name
           lookup == load_plugin_from_finder(dir[load.pos].mod)
       IN  IF lookup.kind = "raise"
           THEN /\ load' = [load EXCEPT !.pc = "done"]
                /\ ret' = Ret("load_path", <<>>, TRUE, <<>>)
                /\ UNCHANGED prev
           ELSE /\ load' =
                     IF lookup.kind = "none" THEN [load EXCEPT !.pos = @ + 1]
                     ELSE IF name = "dash"
                          THEN [load EXCEPT !.pos = @ + 1,
                                            !.tDash = setitem(@, name, lookup.plugin)]
                     ELSE IF name = "hls"
                          THEN [load EXCEPT !.pos = @ + 1,
                                            !.tHls = setitem(@, name, lookup.plugin)]
                     ELSE IF name = "http"
                          THEN [load EXCEPT !.pos = @ + 1,
                                            !.tHttp = setitem(@, name, lookup.plugin)]
                     ELSE [load EXCEPT !.pos = @ + 1,
                                       !.plugins = setitem(@, name, lookup.plugin)]
                /\ UNCHANGED <<prev, ret>>
    /\ UNCHANGED <<plugins, dir, call, second, streamVars>>

\* the loop is over: hls, dash and http go to the end of the local dict, which is returned
LoadReturn ==
    /\ load.pc = "scan"
    /\ load.pos > Len(dir)
    /\ LET p1 == IF load.tHls # <<>> THEN update(load.plugins, load.tHls) ELSE load.plugins
           p2 == IF load.tDash # <<>> THEN update(p1, load.tDash) ELSE p1
           p3 == IF load.tHttp # <<>> THEN update(p2, load.tHttp) ELSE p2
       IN  load' = [load EXCEPT !.pc = "update", !.plugins = p3]
    /\ UNCHANGED <<plugins, prev, ret, dir, call, second, streamVars>>

\* self.update(plugins); return bool(plugins)
LoadUpdate ==
    /\ load.pc = "update"
    /\ plugins' = update(plugins, load.plugins)
    /\ prev' = plugins
    /\ ret' = Ret("load_path", load.plugins, FALSE, load.plugins # <<>>)
    /\ load' = [load EXCEPT !.pc = "done"]
    /\ UNCHANGED <<dir, call, second, streamVars>>

\* match_url while the directory is scanned or after load_path ended
LoadMatchUrl(url) ==
    /\ load.pc # "idle"
    /\ MatchUrl(url)

LoadNext ==
    \/ \E name \in LoadNames, mod \in LoadOutcomes : AddModule(name, mod)
    \/ \E key \in LoadKeys, value \in LoadClasses : LoadSetItem(key, value)
    \/ LoadBegin
    \/ LoadScanModule
    \/ LoadReturn
    \/ LoadUpdate
    \/ \E url \in URLs : LoadMatchUrl(url)

LoadSpec == Init /\ [][LoadNext]_vars

----------------------------------------------------------------------------
(* Two registries, each built by its own sequence of register, remove and load
   calls; URLs are resolved on both. *)

SecondSetItem(key, value) ==
    /\ second' = [second EXCEPT !.items = setitem(@, key, value)]
    /\ UNCHANGED <<plugins, prev, ret, dir, call, load, streamVars>>

SecondDelItem(key) ==
    /\ second' = [second EXCEPT !.items = delitem(@, key)]
    /\ UNCHANGED <<plugins, prev, ret, dir, call, load, streamVars>>

SecondLoadPath(loaded) ==
    /\ ~loaded.raised
    /\ second' = [second EXCEPT !.items = update(@, loaded.plugins)]
    /\ UNCHANGED <<plugins, prev, ret, dir, call, load, streamVars>>

\* the batches over the names the two registries use
PairLoadResults == {loaded \in LoadResults : DictKeys(loaded.plugins) \subseteq {"siteA", "http"}}

PairNext ==
    \/ \E key \in {"siteA", "http"}, value \in PluginClasses : SetItem(key, value)
    \/ \E key \in {"siteA", "http"} : DelItem(key)
    \/ \E loaded \in PairLoadResults : LoadPath(loaded)
    \/ \E url \in URLs : MatchUrl(url)
    \/ \E key \in {"siteA", "http"}, value \in PluginClasses : SecondSetItem(key, value)
    \/ \E key \in {"siteA", "http"} : SecondDelItem(key)
    \/ \E loaded \in PairLoadResults : SecondLoadPath(loaded)

PairSpec == Init /\ [][PairNext]_vars

----------------------------------------------------------------------------
(* get_loaded: the caller keeps the dict it was given and changes it, while the
   registry is changed too.  A dict that is the registry's own dict (alias)
   changes with it. *)

\* return dict(self._plugins): a new dict with the same items (mutant: the
\* registry's own dict is returned)
get_loaded_live(d) == [alias |-> TRUE, items |-> d]
get_loaded(d) == [alias |-> FALSE, items |-> d]

\* the returned dict once the registry's dict is d, and the registry's dict
\* once the returned dict is d
Follow(s, d) == IF s.alias THEN [s EXCEPT !.items = d] ELSE s
FollowBack(s, d) == IF s.alias THEN d ELSE plugins

\* the calls on the registry and on the returned dict use these names, plugin
\* classes and batches
CopyNames == {"siteA", "http"}
CopyClasses == {PNone, PSite}
CopyLoadResults ==
    {loaded \in PairLoadResults :
        \A i \in 1..Len(loaded.plugins) : loaded.plugins[i].plugin \in CopyClasses}

GetLoaded ==
    /\ second' = [alias |-> get_loaded(plugins).alias, items |-> get_loaded(plugins).items,
                  at |-> plugins, touched |-> FALSE]
    /\ plugins' = plugins
    /\ prev' = plugins
    /\ ret' = Ret("get_loaded", <<>>, FALSE, get_loaded(plugins).items)
    /\ UNCHANGED <<dir, call, load, streamVars>>

CopySetItem(key, value) ==
    /\ plugins' = setitem(plugins, key, value)
    /\ second' = Follow(second, plugins')
    /\ prev' = plugins
    /\ ret' = Ret("setitem", <<key, value>>, FALSE, <<>>)
    /\ UNCHANGED <<dir, call, load, streamVars>>

CopyDelItem(key) ==
    /\ plugins' = delitem(plugins, key)
    /\ second' = Follow(second, plugins')
    /\ prev' = plugins
    /\ ret' = Ret("delitem", key, FALSE, <<>>)
    /\ UNCHANGED <<dir, call, load, streamVars>>

CopyClear ==
    /\ plugins' = <<>>
    /\ second' = Follow(second, plugins')
    /\ prev' = plugins
    /\ ret' = Ret("clear", <<>>, FALSE, <<>>)
    /\ UNCHANGED <<dir, call, load, streamVars>>

CopyLoadPath(loaded) ==
    /\ load_path(loaded)
    /\ second' = Follow(second, plugins')
    /\ UNCHANGED <<dir, call, load, streamVars>>

\* the caller stores into, or removes from, the dict it was given
ReturnedSetItem(key, value) ==
    /\ ret.op # "init"
    /\ second' = [second EXCEPT !.items = setitem(@, key, value), !.touched = TRUE]
    /\ plugins' = FollowBack(second, second'.items)
    /\ prev' = plugins
    /\ ret' = Ret("returned", <<key, value>>, FALSE, <<>>)
    /\ UNCHANGED <<dir, call, load, streamVars>>

ReturnedDelItem(key) ==
    /\ ret.op # "init"
    /\ second' = [second EXCEPT !.items = delitem(@, key), !.touched = TRUE]
    /\ plugins' = FollowBack(second, second'.items)
    /\ prev' = plugins
    /\ ret' = Ret("returned", key, FALSE, <<>>)
    /\ UNCHANGED <<dir, call, load, streamVars>>

CopyNext ==
    \/ GetLoaded
    \/ \E key \in CopyNames, value \in CopyClasses : CopySetItem(key, value)
    \/ \E key \in CopyNames : CopyDelItem(key)
    \/ CopyClear
    \/ \E loaded \in CopyLoadResults : CopyLoadPath(loaded)
    \/ \E key \in CopyNames, value \in CopyClasses : ReturnedSetItem(key, value)
    \/ \E key \in CopyNames : ReturnedDelItem(key)

CopySpec == Init /\ [][CopyNext]_vars

----------------------------------------------------------------------------
(* match_url in one thread while another thread changes the registry.  The
   interpreter runs one thread at a time and may switch between two bytecodes:
   a step of the dict's iterator, a dict lookup, a store, pop, update or clear
   of the dict is atomic each, the loop of match_url is not.

   The dict keeps its entries in an array in insertion order; a removed entry
   stays in the array as a hole, a new key goes to the end, and a dict that
   grows may rebuild the array without its holes.  The iterator of
   self._plugins.items() holds an index into that array (pos), the dict's size
   when it was made (used) and the number of items it has still to give (len);
   dead counts the holes before pos, so the next item is the item number
   pos - dead + 1 of the dict. *)

\* the names the two threads use
ConcNames == {"siteA", "http"}

Running == call.pc \in {"iter", "lookup"}

\* how many times the other thread changes the dict during one call
MaxChanges == 2
MayChange == Running => call.changes < MaxChanges

\* a change of the dict by another thread, seen from the running call: the
\* call's result is to be the result on one of the dict's states it ran over
Observe(d, dead) ==
    IF Running
    THEN [call EXCEPT !.seen = @ \cup {match_url(d, call.url)}, !.dead = dead,
                      !.changes = @ + 1]
    ELSE call

\* the holes before pos after the entries named keys are removed
DeadAfter(keys) ==
    call.dead + Cardinality({i \in 1..Len(plugins) :
                                i <= call.pos - call.dead /\ plugins[i].name \in keys})

\* match_url is called: iter_matchers makes the iterator of self._plugins.items()
CallStart(url) ==
    /\ call.pc = "idle"
    /\ call' = [Idle EXCEPT !.pc = "iter", !.url = url, !.used = Len(plugins),
                            !.len = Len(plugins), !.seen = {match_url(plugins, url)}]
    /\ UNCHANGED <<plugins, prev, ret, dir, second, load, streamVars>>

\* one turn of the loop over iter_matchers: the iterator's next item, the
\* plugin.matchers filter and the loop over the item's matchers
CallNext ==
    /\ call.pc = "iter"
    /\ LET i == call.pos - call.dead + 1
       IN  IF call.used # Len(plugins)
           THEN \* RuntimeError: dictionary changed size during iteration
                call' = [call EXCEPT !.pc = "done", !.raised = "RuntimeError"]
           ELSE IF i > Len(plugins)
           THEN \* the iterator is exhausted: return None
                call' = [call EXCEPT !.pc = "done", !.value = None]
           ELSE IF call.len = 0
           THEN \* RuntimeError: dictionary keys changed during iteration
                call' = [call EXCEPT !.pc = "done", !.raised = "RuntimeError"]
           ELSE IF /\ plugins[i].plugin.matchers # <<>>
                   /\ matchers_match(plugins[i].plugin.matchers, call.url)
           THEN call' = [call EXCEPT !.pc = "lookup", !.name = plugins[i].name,
                                     !.pos = @ + 1, !.len = @ - 1]
           ELSE call' = [call EXCEPT !.pos = @ + 1, !.len = @ - 1]
    /\ UNCHANGED <<plugins, prev, ret, dir, second, load, streamVars>>

\* return name, self._plugins[name]
CallLookup ==
    /\ call.pc = "lookup"
    /\ IF call.name \in DictKeys(plugins)
       THEN call' = [call EXCEPT !.pc = "done",
                                 !.value = Found(call.name, getitem(plugins, call.name))]
       ELSE call' = [call EXCEPT !.pc = "done", !.raised = "KeyError"]
    /\ UNCHANGED <<plugins, prev, ret, dir, second, load, streamVars>>

\* the call has returned or raised; another call may follow
CallEnd ==
    /\ call.pc = "done"
    /\ call' = Idle
    /\ UNCHANGED <<plugins, prev, ret, dir, second, load, streamVars>>

\* __setitem__ in the other thread; a new key may make the dict rebuild its array
ConcSetItem(key, value) ==
    /\ MayChange
    /\ plugins' = setitem(plugins, key, value)
    /\ \E rebuilt \in BOOLEAN :
          /\ rebuilt => (key \notin DictKeys(plugins) /\ Running /\ call.dead > 0)
          /\ call' = Observe(plugins', IF rebuilt THEN 0 ELSE call.dead)
    /\ UNCHANGED <<prev, ret, dir, second, load, streamVars>>

\* __delitem__ in the other thread
ConcDelItem(key) ==
    /\ MayChange
    /\ plugins' = delitem(plugins, key)
    /\ call' = Observe(plugins', DeadAfter({key}))
    /\ UNCHANGED <<prev, ret, dir, second, load, streamVars>>

\* clear in the other thread: the dict gets a new, empty array
ConcClear ==
    /\ MayChange
    /\ plugins' = <<>>
    /\ call' = Observe(plugins', 0)
    /\ UNCHANGED <<prev, ret, dir, second, load, streamVars>>

\* load_path in the other thread: the scan fills a dict of its own, and
\* self._plugins.update(plugins) is one step
ConcLoadPath(loaded) ==
    /\ MayChange
    /\ ~loaded.raised
    /\ DictKeys(loaded.plugins) \subseteq ConcNames
    /\ plugins' = update(plugins, loaded.plugins)
    /\ \E rebuilt \in BOOLEAN :
          /\ rebuilt => ( /\ DictKeys(loaded.plugins) \ DictKeys(plugins) # {}
                          /\ Running /\ call.dead > 0 )
          /\ call' = Observe(plugins', IF rebuilt THEN 0 ELSE call.dead)
    /\ UNCHANGED <<prev, ret, dir, second, load, streamVars>>

ConcNext ==
    \/ \E url \in URLs : CallStart(url)
    \/ CallNext
    \/ CallLookup
    \/ CallEnd
    \/ \E key \in ConcNames, value \in PluginClasses : ConcSetItem(key, value)
    \/ \E key \in ConcNames : ConcDelItem(key)
    \/ ConcClear
    \/ \E loaded \in LoadResults : ConcLoadPath(loaded)

ConcSpec == Init /\ [][ConcNext]_vars

----------------------------------------------------------------------------
(* HTTPStream: open, read and close.

   The response body (self.res.iter_content) is the raw source.  Its bytes are
   numbered 1, 2, 3, ... in the order the body yields them, so a chunk is a
   sequence of consecutive numbers and src.produced is the number of bytes the
   body has yielded so far.  How the body cuts its bytes into chunks, when it
   ends, whether it fails and when it stalls is the network's choice.

   StreamIOIterWrapper (the chunk source adapter) and StreamIOThreadWrapper
   (the readahead buffer) are modelled from sections 4.2, 4.3 and 5 of the
   specification. *)

MaxBytes == 5     \* a response body yields at most this many bytes
MaxChunk == 3     \* the largest chunk the body's iterator yields
MaxRead == 2      \* the largest max_bytes of a consumer read
MaxReads == 6     \* consumer reads on one opened stream
MaxOpens == 2     \* open() calls on one HTTPStream
Capacity == 2     \* the capacity N of the buffer's queue, in chunks
ChunkSize == 2    \* self.chunk_size: what the fill task asks of the adapter

Min(a, b) == IF a < b THEN a ELSE b
\* the bytes a..b of the body
Bytes(a, b) == [i \in 1..(b - a + 1) |-> a + i - 1]
Take(s, n) == SubSeq(s, 1, Min(n, Len(s)))
Drop(s, n) == SubSeq(s, Min(n, Len(s)) + 1, Len(s))

\* the response of a successful request: nothing read from its body yet
NewSource == [state |-> "live", produced |-> 0, carry |-> <<>>]

\* The adapter's read(n): the outcomes of one call, each with the data it
\* returns and the source it leaves.  Bytes left over from the last chunk are
\* given first; otherwise the next chunk is taken from the body's iterator,
\* which yields a chunk, ends or fails.  A body whose response was closed gives
\* no more chunks.
AdapterRead(s, n, closed) ==
    IF s.carry # <<>>
    THEN {[kind |-> "data", data |-> Take(s.carry, n),
           src |-> [s EXCEPT !.carry = Drop(@, n)]]}
    ELSE IF s.state = "ended"
    THEN {[kind |-> "eof", data |-> <<>>, src |-> s]}
    ELSE IF s.state \in {"failed", "closed"}
    THEN {[kind |-> k, data |-> <<>>, src |-> s] : k \in {"eof", "error"}}
    ELSE IF closed
    THEN {[kind |-> k, data |-> <<>>, src |-> [s EXCEPT !.state = "closed"]] :
             k \in {"eof", "error"}}
    ELSE {[kind |-> "data", data |-> Take(Bytes(s.produced + 1, s.produced + k), n),
           src |-> [s EXCEPT !.produced = @ + k,
                             !.carry = Drop(Bytes(s.produced + 1, s.produced + k), n)]] :
             k \in {j \in 1..MaxChunk : s.produced + j <= MaxBytes}}
         \cup {[kind |-> "eof", data |-> <<>>, src |-> [s EXCEPT !.state = "ended"]],
               [kind |-> "error", data |-> <<>>, src |-> [s EXCEPT !.state = "failed"]]}

\* The buffer as its constructor leaves it: the fill task is started
NewBuffer == [NoBuffer EXCEPT !.state = "open", !.fill = "pull"]

FillAlive(b) == b.fill \in {"pull", "push"}

\* what the fill task waits on: the source's next chunk, or room in the queue
WaitsOn(b) ==
    IF b.fill = "pull" THEN "source"
    ELSE IF Len(b.queue) = Capacity THEN "full" ELSE "push"

\* the stop signal reaches the fill task wherever it waits (mutant: a task
\* that waits for room in the queue does not see it)
SeesStop_not_when_full(b) == b.stop /\ FillAlive(b) /\ WaitsOn(b) # "full"
SeesStop(b) == b.stop /\ FillAlive(b)

\* the fill task's push waits while the queue is full (mutant: it never waits)
CanPush_always(b) == TRUE
CanPush(b) == Len(b.queue) < Capacity

Push(b) == [b EXCEPT !.queue = Append(@, b.held), !.held = <<>>, !.fill = "pull"]

\* how a consumer read on the buffer ends (mutants: queued data is given before
\* the recorded error; a recorded error ends the stream like its end)
ReadOutcome_drain_first(b) ==
    IF b.queue # <<>> THEN "data"
    ELSE IF b.error THEN "error"
    ELSE IF b.exhausted THEN "eof"
    ELSE "timeout"
ReadOutcome_silent(b) ==
    IF b.queue # <<>> THEN "data"
    ELSE IF b.exhausted \/ b.error THEN "eof"
    ELSE "timeout"
ReadOutcome(b) ==
    IF b.error THEN "error"
    ELSE IF b.queue # <<>> THEN "data"
    ELSE IF b.exhausted THEN "eof"
    ELSE "timeout"

\* a read pops up to n bytes of the oldest chunk; what is left of the chunk
\* stays at the head of the queue (mutant: it pops the newest chunk)
TakeData_newest(b, n) ==
    LET last == b.queue[Len(b.queue)]
        rest == SubSeq(b.queue, 1, Len(b.queue) - 1)
    IN  [data |-> Take(last, n),
         buf |-> [b EXCEPT !.queue = IF Drop(last, n) = <<>> THEN rest
                                     ELSE Append(rest, Drop(last, n))]]
TakeData(b, n) ==
    LET first == Head(b.queue)
    IN  [data |-> Take(first, n),
         buf |-> [b EXCEPT !.queue = IF Drop(first, n) = <<>> THEN Tail(b.queue)
                                     ELSE <<Drop(first, n)>> \o Tail(b.queue)]]

\* HTTPStream.__init__
HttpInit(buffered) ==
    /\ http.pc = "new"
    /\ http' = [NoStream EXCEPT !.pc = "idle", !.buffered = buffered]
    /\ UNCHANGED <<plugins, prev, ret, dir, call, second, load, src, buf, rd, orphans>>

\* HTTPStream.open: the request raises StreamError and nothing is assigned, or
\* self.res and self.fd are replaced.  The buffer of an earlier open() that was
\* not closed is dropped with its fill task still running.
Open ==
    /\ http.pc = "idle"
    /\ http.opens < MaxOpens
    /\ \E ok \in BOOLEAN :
          IF ok
          THEN /\ http' = [http EXCEPT !.opens = @ + 1, !.res = "open",
                                       !.fd = IF http.buffered THEN "thread" ELSE "iter"]
               /\ src' = NewSource
               /\ buf' = IF http.buffered THEN NewBuffer ELSE NoBuffer
               /\ rd' = NoReads
               /\ orphans' = IF FillAlive(buf) THEN orphans + 1 ELSE orphans
          ELSE /\ http' = [http EXCEPT !.opens = @ + 1]
               /\ UNCHANGED <<src, buf, rd, orphans>>
    /\ UNCHANGED <<plugins, prev, ret, dir, call, second, load>>

\* the fill task reads the adapter: a chunk to push, the end, or a failure
FillPull ==
    /\ buf.fill = "pull"
    /\ \E out \in AdapterRead(src, ChunkSize, http.res = "closed") :
          /\ src' = out.src
          /\ buf' = IF out.kind = "data"
                    THEN [buf EXCEPT !.held = out.data, !.fill = "push"]
                    ELSE IF out.kind = "eof"
                    THEN [buf EXCEPT !.exhausted = TRUE, !.fill = "exit"]
                    ELSE [buf EXCEPT !.error = TRUE, !.fill = "exit"]
    /\ UNCHANGED <<plugins, prev, ret, dir, call, second, load, http, rd, orphans>>

\* the fill task pushes the chunk it holds, once the queue has room
FillPush ==
    /\ buf.fill = "push"
    /\ CanPush(buf)
    /\ buf' = Push(buf)
    /\ UNCHANGED <<plugins, prev, ret, dir, call, second, load, http, src, rd, orphans>>

\* the fill task sees the stop signal and exits
FillStop ==
    /\ SeesStop(buf)
    /\ buf' = [buf EXCEPT !.fill = "exit", !.held = <<>>, !.left = WaitsOn(buf)]
    /\ UNCHANGED <<plugins, prev, ret, dir, call, second, load, http, src, rd, orphans>>

\* a fill task left behind by open() ends with its source
OrphanExit ==
    /\ orphans > 0
    /\ orphans' = orphans - 1
    /\ UNCHANGED <<plugins, prev, ret, dir, call, second, load, http, src, buf, rd>>

Done(kind, data) ==
    [rd EXCEPT !.got = @ \o data, !.last = kind, !.reads = @ + 1,
               !.timedOut = @ \/ kind = "timeout", !.pending = FALSE]

\* the consumer reads the handle open() returned, on a stream that is not closed
Read(n) ==
    /\ http.pc = "idle"
    /\ http.res = "open"
    /\ http.fd = "thread" => buf.state = "open"
    /\ rd.reads < MaxReads
    /\ IF http.fd = "thread"
       THEN /\ IF ReadOutcome(buf) = "data"
               THEN /\ buf' = TakeData(buf, n).buf
                    /\ rd' = Done("data", TakeData(buf, n).data)
               ELSE /\ buf' = buf
                    /\ rd' = Done(ReadOutcome(buf), <<>>)
            /\ src' = src
       ELSE /\ \E out \in AdapterRead(src, n, FALSE) :
                  /\ src' = out.src
                  /\ rd' = Done(out.kind, out.data)
            /\ buf' = buf
    /\ UNCHANGED <<plugins, prev, ret, dir, call, second, load, http, orphans>>

\* a read on the buffer finds nothing ready and waits
ReadWait ==
    /\ http.pc = "idle"
    /\ http.res = "open"
    /\ http.fd = "thread" /\ buf.state = "open"
    /\ rd.reads < MaxReads
    /\ ~rd.pending
    /\ ReadOutcome(buf) = "timeout"
    /\ rd' = [rd EXCEPT !.pending = TRUE]
    /\ UNCHANGED <<plugins, prev, ret, dir, call, second, load, http, src, buf, orphans>>

\* the wait of a read ends because the stream is being closed
ReadAbort ==
    /\ rd.pending
    /\ http.pc # "idle" \/ buf.state = "closed"
    /\ rd' = [rd EXCEPT !.pending = FALSE, !.last = "closed"]
    /\ UNCHANGED <<plugins, prev, ret, dir, call, second, load, http, src, buf, orphans>>

\* how a close() of the response or of the handle may end
CloseOutcomes == {"ok", "Exception", "BaseException"}

\* try: ... except: pass -- the bare except takes every exception (mutant:
\* except Exception, which lets a BaseException through)
Guarded_exception_only(outcome) == IF outcome = "BaseException" THEN "raise" ELSE "pass"
Guarded(outcome) == IF outcome \in CloseOutcomes THEN "pass" ELSE "raise"

\* HTTPStream.close, first statement: self.res.close(), skipped while self.res
\* is None.  A close of the response that raises may or may not have closed it.
CloseRes ==
    /\ http.pc = "idle"
    /\ IF http.res = "none"
       THEN http' = [http EXCEPT !.pc = "fd", !.caught = FALSE]
       ELSE \E outcome \in CloseOutcomes, res \in {"closed", http.res} :
               /\ outcome = "ok" => res = "closed"
               /\ http' = IF Guarded(outcome) = "raise"
                          THEN [http EXCEPT !.res = res, !.raised = TRUE]
                          ELSE [http EXCEPT !.res = res, !.pc = "fd",
                                            !.caught = outcome # "ok"]
    /\ UNCHANGED <<plugins, prev, ret, dir, call, second, load, src, buf, rd, orphans>>

\* HTTPStream.close, second statement: self.fd.close(), skipped while self.fd
\* is None.  The close of an open buffer signals its fill task; the close of
\* the unbuffered handle may raise.
CloseFd ==
    /\ http.pc = "fd"
    /\ IF http.fd = "thread" /\ buf.state = "open"
       THEN /\ buf' = [buf EXCEPT !.stop = TRUE]
            /\ http' = [http EXCEPT !.pc = "join"]
       ELSE /\ buf' = buf
            /\ \E outcome \in IF http.fd = "iter" THEN CloseOutcomes ELSE {"ok"} :
                  http' = IF Guarded(outcome) = "raise"
                          THEN [http EXCEPT !.pc = "idle", !.raised = TRUE]
                          ELSE [http EXCEPT !.pc = "idle",
                                            !.caught = @ \/ outcome # "ok"]
    /\ UNCHANGED <<plugins, prev, ret, dir, call, second, load, src, rd, orphans>>

\* self.fd.close() returns when the fill task has exited
CloseJoin ==
    /\ http.pc = "join"
    /\ buf.fill = "exit"
    /\ buf' = [buf EXCEPT !.state = "closed", !.queue = <<>>]
    /\ http' = [http EXCEPT !.pc = "idle"]
    /\ UNCHANGED <<plugins, prev, ret, dir, call, second, load, src, rd, orphans>>

StreamNext ==
    \/ \E buffered \in BOOLEAN : HttpInit(buffered)
    \/ Open
    \/ FillPull
    \/ FillPush
    \/ FillStop
    \/ OrphanExit
    \/ \E n \in 1..MaxRead : Read(n)
    \/ ReadWait
    \/ ReadAbort
    \/ CloseRes
    \/ CloseFd
    \/ CloseJoin

StreamSpec == Init /\ [][StreamNext]_vars

\* The same with the scheduling close() relies on: the thread in close() runs
\* on, and the fill task is scheduled until it has seen the stop signal.
LiveStreamSpec ==
    /\ StreamSpec
    /\ WF_vars(CloseFd)
    /\ WF_vars(FillStop)
    /\ WF_vars(CloseJoin)

----------------------------------------------------------------------------
(* Properties of the registry *)

\* a plugin has a pattern that matches the URL
Matches(plugin, url) == \E j \in DOMAIN plugin.matchers : url \in plugin.matchers[j]
MatchingAt(d, url) == {i \in 1..Len(d) : Matches(d[i].plugin, url)}
First(S) == CHOOSE i \in S : \A j \in S : i <= j
LoadedOk == ret.op = "load_path" /\ ~ret.raised

\* C1: after load_path has merged a batch that holds a specific plugin S matching
\* the URL and the plugin named http matching it too, and no plugin whose name is
\* outside the batch matches the URL, match_url(URL) returns S.
C1_FallbackOrdering ==
    LoadedOk =>
        \A url \in URLs, S \in SpecificNames :
            ( /\ S \in DictKeys(ret.arg)
              /\ Matches(getitem(ret.arg, S), url)
              /\ "http" \in DictKeys(ret.arg)
              /\ Matches(getitem(ret.arg, "http"), url)
              /\ \A i \in 1..Len(plugins) :
                    plugins[i].name \notin DictKeys(ret.arg) => ~Matches(plugins[i].plugin, url) )
            => match_url(plugins, url) = Found(S, getitem(ret.arg, S))

\* C2: match_url returns the first plugin, in the registry's order, that has a
\* pattern matching the URL, and None when no plugin has one; it does not raise
\* and never returns a plugin without matchers.
C2_FirstMatch ==
    ret.op = "match_url" =>
        LET M == MatchingAt(plugins, ret.arg)
        IN  /\ ~ret.raised
            /\ M = {} => ret.value = None
            /\ M # {} =>
                /\ ret.value = Found(plugins[First(M)].name, plugins[First(M)].plugin)
                /\ ret.value.plugin.matchers # <<>>

C2_Witness ==
    /\ ret.op = "match_url"
    /\ Len(plugins) = Cardinality(Names)
    /\ plugins[1].plugin = PNone
    /\ MatchingAt(plugins, ret.arg) = {2, 3}
    /\ ret.value = Found(plugins[2].name, plugins[2].plugin)

\* the order _load_from_path is to give a directory's plugins
ValidModules(mods) == SelectSeq(mods, LAMBDA m : m.mod.kind = "Plugin")
ModulesNamed(mods, name) == SelectSeq(mods, LAMBDA m : m.name = name)
BatchOrder(mods) ==
    LET valid == ValidModules(mods)
        order == SelectSeq(valid, LAMBDA m : m.name \notin ReservedNames)
                    \o ModulesNamed(valid, "hls") \o ModulesNamed(valid, "dash")
                    \o ModulesNamed(valid, "http")
    IN  [i \in 1..Len(order) |-> [name |-> order[i].name, plugin |-> order[i].mod.plugin]]

\* C3: after one directory is loaded into an empty registry, the registry's order
\* is the directory's specific plugins in discovery order, then hls, then dash,
\* then http; so with only reserved names loaded and a URL they all match,
\* match_url returns hls, or dash when hls is absent, or else http.
C3_BatchOrder ==
    /\ LoadedOk => plugins = BatchOrder(dir)
    /\ ( /\ ret.op = "match_url"
         /\ plugins # <<>>
         /\ DictKeys(plugins) \subseteq ReservedNames
         /\ \A i \in 1..Len(plugins) : Matches(plugins[i].plugin, ret.arg) )
       => ret.value.name = IF "hls" \in DictKeys(plugins) THEN "hls"
                           ELSE IF "dash" \in DictKeys(plugins) THEN "dash" ELSE "http"

C3_Witness ==
    /\ ret.op = "match_url"
    /\ [i \in 1..Len(dir) |-> dir[i].name] = <<"http", "dash", "hls">>
    /\ \A i \in 1..Len(plugins) : Matches(plugins[i].plugin, ret.arg)
    /\ [i \in 1..Len(plugins) |-> plugins[i].name] = <<"hls", "dash", "http">>
    /\ ret.value.name = "hls"

\* what the last call stored in the registry
Stored ==
    IF ret.op = "setitem" THEN <<[name |-> ret.arg[1], plugin |-> ret.arg[2]]>>
    ELSE IF LoadedOk THEN ret.arg ELSE <<>>

\* C4: the registry holds at most one plugin per name; storing a plugin under a
\* name that is registered (by __setitem__ or by a batch load) replaces the
\* definition, and a URL that only replaced definitions matched, and no new
\* definition matches, then resolves to None.
C4_Override ==
    /\ \A i, j \in 1..Len(plugins) : plugins[i].name = plugins[j].name => i = j
    /\ \A k \in 1..Len(Stored) :
          /\ Stored[k].name \in DictKeys(plugins)
          /\ getitem(plugins, Stored[k].name) = Stored[k].plugin
    /\ (ret.op = "setitem" \/ LoadedOk) =>
          /\ DictKeys(plugins) = DictKeys(prev) \cup DictKeys(Stored)
          /\ Len(plugins) = Cardinality(DictKeys(plugins))
    /\ \A url \in URLs :
          ( /\ Stored # <<>>
            /\ \A i \in MatchingAt(prev, url) : prev[i].name \in DictKeys(Stored)
            /\ MatchingAt(Stored, url) = {} )
          => match_url(plugins, url) = None

C4_Witness ==
    /\ ret.op = "setitem"
    /\ ret.arg[1] \in DictKeys(prev)
    /\ Len(prev) = 2
    /\ getitem(prev, ret.arg[1]) = PWide
    /\ ret.arg[2] = PSite
    /\ match_url(prev, "u2") = Found(ret.arg[1], PWide)
    /\ match_url(plugins, "u2") = None

\* C5: a batch load does not raise because of one bad module: whatever the
\* failure of that module, load_path returns and every valid plugin of the
\* directory is registered.
C5_BadModuleSkipped ==
    ret.op = "load_path" =>
        /\ ~ret.raised
        /\ \A i \in 1..Len(dir) :
              dir[i].mod.kind = "Plugin" =>
                  /\ dir[i].name \in DictKeys(plugins)
                  /\ getitem(plugins, dir[i].name) = dir[i].mod.plugin

\* C6: a match_url call that runs while another thread loads, registers, removes
\* or clears does not raise, and returns what match_url returns on one of the
\* registry's states it ran over (before or after each change).
C6_ConsistentView ==
    call.pc = "done" => /\ call.raised = ""
                        /\ call.value \in call.seen

----------------------------------------------------------------------------
(* Properties of a buffered stream *)

\* the bytes of a queue's chunks, oldest first
RECURSIVE Flatten(_)
Flatten(q) == IF q = <<>> THEN <<>> ELSE Head(q) \o Flatten(Tail(q))

\* a buffered stream that is open, with no close() under way
Buffering == http.fd = "thread" /\ http.pc = "idle" /\ buf.state = "open"

\* every byte taken from the body was read, or is queued, held by the fill task
\* or carried by the adapter, in the body's order
Conserved == rd.got \o Flatten(buf.queue) \o buf.held \o src.carry = Bytes(1, src.produced)

\* the fill task waits with a chunk in its hands for room in a full queue
Blocked == buf.fill = "push" /\ Len(buf.queue) = Capacity

C8_Ordering ==
    http.fd = "thread" =>
        /\ rd.got = Bytes(1, Len(rd.got))
        /\ Len(rd.got) <= src.produced
        /\ rd.last = "eof" => /\ src.state = "ended"
                              /\ Len(rd.got) = src.produced

C8_Witness ==
    /\ http.fd = "thread"
    /\ rd.last = "eof"
    /\ rd.timedOut
    /\ rd.got = Bytes(1, MaxBytes)

\* C9: a read on a buffered stream returns the end of the stream only when the
\* body ended and no error is recorded, reports an error exactly when the body
\* failed, and signals a timeout only when nothing is queued, the body neither
\* ended nor failed and the fill task is alive; a timeout changes nothing of the
\* stream.
C9_Outcomes ==
    [][ (http.fd = "thread" /\ rd'.reads = rd.reads + 1) =>
            /\ rd'.last = "eof" =>
                  src.state = "ended" /\ buf.exhausted /\ ~buf.error
            /\ src.state = "failed" => rd'.last = "error"
            /\ rd'.last = "error" => src.state = "failed" /\ buf.error
            /\ rd'.last = "timeout" =>
                  /\ buf.queue = <<>> /\ ~buf.error /\ ~buf.exhausted
                  /\ src.state = "live"
                  /\ FillAlive(buf)
                  /\ buf.state = "open"
                  /\ UNCHANGED <<http, src, buf>>
      ]_vars

\* a read that timed out was followed by a read that returned data
C9_Witness ==
    /\ http.fd = "thread"
    /\ rd.timedOut
    /\ rd.last = "data"
    /\ rd.got # <<>>

\* C10: once the fill task has recorded a failure, the error stays recorded
\* until the stream is opened again, and every read reports it and returns no
\* byte, whatever is queued.
C10_StickyError ==
    [][ (http.fd = "thread" /\ buf.error /\ http'.opens = http.opens) =>
            /\ buf'.error
            /\ rd'.got = rd.got
            /\ rd'.reads # rd.reads => rd'.last = "error"
      ]_vars

\* two reads after a failure, with chunks still queued: both reported the error
C10_Witness ==
    /\ Buffering
    /\ buf.error
    /\ buf.queue # <<>>
    /\ rd.reads = 2
    /\ rd.got = <<>>
    /\ ~rd.timedOut
    /\ rd.last = "error"

\* a close() call is under way
Closing == http.pc \in {"fd", "join"}

ClosedStream ==
    /\ http.pc = "idle"
    /\ http.res \in {"none", "closed"}
    /\ http.fd = "thread" => buf.state = "closed"

\* C12: no exception leaves HTTPStream.close(), in any state of the stream and
\* whatever the close of the response or of the handle raises; and the steps of
\* a close() on a stream that is not open (never opened, open() failed, or
\* closed before) change nothing of the response, the handle, the source, the
\* buffer and what was read.
C12_CloseNeverRaises ==
    /\ [](~http.raised)
    /\ [][ (ClosedStream \/ (Closing /\ http.res \in {"none", "closed"}
                                     /\ (http.fd = "thread" => buf.state = "closed")))
           /\ http'.pc # http.pc /\ http'.opens = http.opens
           => /\ http'.res = http.res /\ http'.fd = http.fd
              /\ UNCHANGED <<src, buf, rd, orphans>> ]_vars

\* a close() has returned that took an exception, on a stream that was opened
\* and not read to its end
C12_Witness ==
    /\ http.pc = "idle"
    /\ http.caught
    /\ ~http.raised
    /\ http.res = "closed"
    /\ rd.last = "data"
    /\ src.state = "live"

----------------------------------------------------------------------------
(* More properties of the registry *)

\* the registry's name-to-handler mapping, without its order
Mapping(d) == {<<d[i].name, d[i].plugin>> : i \in 1..Len(d)}

\* C13: a load_path call that returns (does not raise) returns true exactly
\* when the registry's mapping after the call differs from the mapping before.
C13_TrueIffNew ==
    LoadedOk => (ret.value <=> Mapping(plugins) # Mapping(prev))

\* the names of a dict, in its order
NameOrder(d) == [i \in 1..Len(d) |-> d[i].name]

C15_GetLoadedCopy ==
    /\ ret.op = "get_loaded" => ret.value = plugins /\ plugins = prev /\ second.items = plugins
    /\ ret.op = "returned" => plugins = prev
    /\ ~second.touched => second.items = second.at

\* the registry was changed after get_loaded, the caller changed the returned
\* mapping, and the two differ from each other and from the mapping returned
C15_Witness ==
    /\ ret.op = "returned"
    /\ second.at # <<>>
    /\ plugins # second.at
    /\ second.items # second.at
    /\ plugins # second.items
    /\ plugins # <<>>

\* the place of a registered name in the resolution order
Place(d, name) == CHOOSE i \in 1..Len(d) : d[i].name = name

\* two dicts hold their common names in the same relative order
SameRelativeOrder(d, e) ==
    \A a, b \in {d[i].name : i \in 1..Len(d)} \cap {e[i].name : i \in 1..Len(e)} :
        Place(d, a) < Place(d, b) <=> Place(e, a) < Place(e, b)

\* C16: __delitem__ does not raise; it removes the name it is given and nothing
\* else, every other name keeps its handler and the others keep their relative
\* order; when the name is not registered the registry is unchanged.  After
\* clear the registry is empty and match_url returns None for every URL.
C16_RemoveAndClear ==
    /\ ret.op = "delitem" =>
          /\ ~ret.raised
          /\ {plugins[i].name : i \in 1..Len(plugins)}
                = {prev[i].name : i \in 1..Len(prev)} \ {ret.arg}
          /\ Len(plugins) = Cardinality({plugins[i].name : i \in 1..Len(plugins)})
          /\ \A i \in 1..Len(plugins) :
                plugins[i].plugin = prev[Place(prev, plugins[i].name)].plugin
          /\ SameRelativeOrder(plugins, prev)
          /\ (\A i \in 1..Len(prev) : prev[i].name # ret.arg) => plugins = prev
    /\ ret.op = "clear" =>
          /\ ~ret.raised
          /\ Len(plugins) = 0
          /\ \A url \in URLs : match_url(plugins, url) = None

\* the first of three handlers was removed; the URL it used to win now resolves
\* to the handler that stood second
C16_Witness ==
    /\ ret.op = "delitem"
    /\ Len(prev) = 3
    /\ prev[1].name = ret.arg
    /\ Len(plugins) = 2
    /\ MatchingAt(prev, "u1") = {1, 2, 3}
    /\ match_url(plugins, "u1") = Found(prev[2].name, prev[2].plugin)

----------------------------------------------------------------------------
(* More properties of the stream *)

\* the fill tasks of this stream that are running: the one of the buffer
\* self.fd refers to, and those of buffers an open() replaced
FillTasks == orphans + (IF FillAlive(buf) THEN 1 ELSE 0)

\* C17: a stream has at most one running fill task at any time; it has none
\* when a close() has returned and nothing is open, and none ever when it is
\* not buffered.
C17_OneFillTask ==
    /\ FillTasks <= 1
    /\ ClosedStream => FillTasks = 0
    /\ ~http.buffered => FillTasks = 0

\* C18: the response of a buffered stream is not closed while the buffer's fill
\* task is running, and no read error the fill task records comes from a source
\* that close() closed under it.
C18_SourceOwnedByFillTask ==
    http.fd = "thread" =>
        /\ FillAlive(buf) => http.res # "closed"
        /\ buf.error => src.state # "closed"

----------------------------------------------------------------------------
(* Order and atomicity of the registry *)

\* C19: after __setitem__ or a batch load, every name that was registered
\* stands where it stood, with the new definition if one was stored for it, and
\* the names that were not registered follow all of those, in the order they
\* were stored.
C19_PositionRetention ==
    (ret.op = "setitem" \/ LoadedOk) =>
        /\ Len(plugins) >= Len(prev)
        /\ \A i \in 1..Len(prev) :
              /\ plugins[i].name = prev[i].name
              /\ plugins[i].plugin =
                    IF prev[i].name \in DictKeys(Stored)
                    THEN getitem(Stored, prev[i].name) ELSE prev[i].plugin
        /\ SubSeq(plugins, Len(prev) + 1, Len(plugins))
              = SelectSeq(Stored, LAMBDA e : e.name \notin DictKeys(prev))

\* a batch with siteA and http was loaded into a registry that held http first:
\* http has the batch's definition and is still first, siteA follows it
C19_Witness ==
    /\ LoadedOk
    /\ Len(prev) = 1 /\ prev[1].name = "http"
    /\ DictKeys(ret.arg) = {"siteA", "http"}
    /\ getitem(ret.arg, "http") # prev[1].plugin
    /\ Len(plugins) = 2
    /\ plugins[1] = [name |-> "http", plugin |-> getitem(ret.arg, "http")]
    /\ plugins[2].name = "siteA"

\* the call under way has not touched the registry
Untouched == plugins = load.before

\* the load_path call ended with an exception of the scan
LoadRaised == load.pc = "done" /\ ret.op = "load_path" /\ ret.raised

\* the load_path call returned and its scan gave no handler
LoadEmpty == load.pc = "done" /\ ret.op = "load_path" /\ ~ret.raised /\ ret.arg = <<>>

\* C20: while load_path scans a directory, and after it ended with an error
\* of the scan or with a scan that gave no handler, the registry's mapping and
\* order are those of before the call, and match_url answers as before the
\* call; a call that returns handlers has merged the whole batch in one step.
C20_BatchAtomicity ==
    /\ load.pc \in {"scan", "update"} => Untouched
    /\ LoadRaised => Untouched /\ load_from_path(dir).raised
    /\ LoadEmpty => Untouched /\ ~ret.value
    /\ load.pc = "done" /\ ret.op = "load_path" /\ ~ret.raised =>
          /\ ret.arg = load_from_path(dir).plugins
          /\ plugins = update(load.before, ret.arg)
    /\ ret.op = "match_url" /\ (load.pc \in {"scan", "update"} \/ Untouched) =>
          ret.value = match_url(load.before, ret.arg)

\* a scan that stored a handler in its local dict failed on a later module,
\* on a registry that held handlers
C20_Witness ==
    /\ LoadRaised
    /\ load.plugins # <<>> \/ load.tHttp # <<>> \/ load.tHls # <<>>
    /\ load.before # <<>>
    /\ plugins = load.before

====
